---- MODULE Spec2Model ----
(***************************************************************************)
(* Model of streamlit_app.py: the fee table (FinanziariaData), the option  *)
(* calculator (FinanceCalculator.calcola_opzioni), the AI analyser's error *)
(* handling and reply sectioning (AIAnalyzer) and the script run           *)
(* (StreamlitUI.run).                                                      *)
(*                                                                         *)
(* Number representation.  The Python code computes in binary floating     *)
(* point; the model computes the same expressions exactly, on integers:    *)
(*   - a percentage p is held as p * Decimali (7.35 is 735);               *)
(*   - an amount in euro a is held as a * Centesimi (1000.00 is 100000);   *)
(*   - costo_commissione and importo_netto are held in units of            *)
(*     1 / (Centesimi * Decimali * Cento) euro, so that                    *)
(*     importo * (percentuale / 100) needs no rounding.                    *)
(* Floating-point rounding error is therefore outside the model.           *)
(***************************************************************************)
EXTENDS Integers, Sequences, FiniteSets, TLC

VARIABLES df, importo, rate, pc, commissioni, risultati, analysis,
          aiOutcome, screen, call, ret

vars == <<df, importo, rate, pc, commissioni, risultati, analysis,
          aiOutcome, screen, call, ret>>

uiVars == <<importo, rate, pc, commissioni, risultati, analysis,
            aiOutcome, screen>>

-----------------------------------------------------------------------------
(* Bounds of the model *)

MaxSteps == 10      \* amounts range over -1..MaxSteps widget steps
MaxPct == 2         \* percentages of a free fee row range over 0..MaxPct
MaxLines == 2       \* lines of a reply of the text-generation service

-----------------------------------------------------------------------------
(* Constants of the program *)

Decimali == 100         \* the table's percentages carry two decimals
Centesimi == 100        \* amounts are shown with two decimals
Cento == 100            \* commissioni[finanziaria] / 100

ImportoMin == 100       \* min_value=1.0
ImportoDefault == 100000 \* value=1000.0
ImportoStep == 10000    \* step=100.0
RateMin == 1            \* min_value=1
RateMax == 24           \* max_value=24
RateDefault == 12       \* value=12

Unita == Decimali * Cento   \* units of a cost per unit of an amount

-----------------------------------------------------------------------------
(* FinanziariaData.__init__ *)

Mesi == [i \in 1..24 |-> i]     \* range(1, 25)

SellaAppago ==
    << 0, 230, 230, 475, 505, 535, 575, 605, 645, 685, 715,
       735, 735, 760, 785, 826, 853, 895, 938, 982, 1027,
       1070, 1114, 1154 >>

CofidisPagoDIL_shift ==
    << 0, 510, 550, 590, 610, 630, 640, 650, 660, 670,
       680, 695, 710, 725, 740, 755, 770, 785, 800, 815,
       830, 845, 860, 860 >>

CofidisPagoDIL ==
    << 0, 0, 510, 550, 590, 610, 630, 640, 650, 660, 670,
       680, 695, 710, 725, 740, 755, 770, 785, 800, 815,
       830, 845, 860 >>

CompassHeyLight_zero ==
    << 0, 500, 536, 572, 608, 632, 656, 680, 715, 739,
       762, 785, 809, 832, 855, 878, 901, 924, 959, 981,
       1004, 1027, 1049, 1072 >>

CompassHeyLight ==
    << 463, 500, 536, 572, 608, 632, 656, 680, 715, 739,
       762, 785, 809, 832, 855, 878, 901, 924, 959, 981,
       1004, 1027, 1049, 1072 >>

Finanziarie == << "Sella Appago", "Cofidis PagoDIL", "Compass HeyLight" >>

Columns == {"Mesi", "Sella Appago", "Cofidis PagoDIL", "Compass HeyLight"}

Row(m, s, c, h) ==
    [k \in Columns |->
        CASE k = "Mesi" -> m
          [] k = "Sella Appago" -> s
          [] k = "Cofidis PagoDIL" -> c
          [] k = "Compass HeyLight" -> h]

\* pd.DataFrame(self.data): one row per position of the four columns
DataFrame ==
    [i \in 1..Len(Mesi) |->
        Row(Mesi[i], SellaAppago[i], CofidisPagoDIL[i], CompassHeyLight[i])]

-----------------------------------------------------------------------------
(* Results of a call: a returned value or a raised exception *)

Returned(v) == [exc |-> "none", val |-> v]
Raised(e) == [exc |-> e, val |-> <<>>]

-----------------------------------------------------------------------------
(* FinanziariaData.get_commissioni *)

\* self.df[self.df['Mesi'] == rate]: the positions whose Mesi equals rate
Matching(d, r) == {i \in DOMAIN d : d[i]["Mesi"] = r}

Minimum(S) == CHOOSE x \in S : \A y \in S : x <= y

get_commissioni_clamp(d, r) ==
    LET k == IF r < 1 THEN 1 ELSE IF r > Len(d) THEN Len(d) ELSE r
    IN  Returned(d[k])

\* .iloc[0]: the first selected row; IndexError on an empty selection
get_commissioni(d, r) ==
    IF Matching(d, r) = {}
    THEN Raised("IndexError")
    ELSE Returned(d[Minimum(Matching(d, r))])

-----------------------------------------------------------------------------
(* FinanceCalculator.calcola_opzioni *)

Opzione_rate(imp, r, comm, f) ==
    [finanziaria |-> f,
     commissione_percentuale |-> comm[f],
     costo_commissione |-> imp * comm[f],
     importo_netto |-> imp * Unita - comm[f] * Centesimi,
     rata_mensile |-> [num |-> imp, den |-> r]]

\* the dictionary appended for one lender
Opzione(imp, r, comm, f) ==
    [finanziaria |-> f,
     commissione_percentuale |-> comm[f],
     costo_commissione |-> imp * comm[f],
     importo_netto |-> imp * Unita - imp * comm[f],
     rata_mensile |-> [num |-> imp, den |-> r]]

Included_all(comm, f) == TRUE

\* if commissioni[finanziaria] == 0: continue
Included(comm, f) == comm[f] # 0

RECURSIVE Loop(_, _, _, _, _)
\* the for loop over the three lenders, from position i on; importo / rate
\* raises ZeroDivisionError for rate = 0 at the first included lender
Loop(imp, r, comm, i, acc) ==
    IF i > Len(Finanziarie) THEN Returned(acc)
    ELSE IF ~Included(comm, Finanziarie[i]) THEN Loop(imp, r, comm, i + 1, acc)
    ELSE IF r = 0 THEN Raised("ZeroDivisionError")
    ELSE Loop(imp, r, comm, i + 1, Append(acc, Opzione(imp, r, comm, Finanziarie[i])))

\* where x goes in a list already in descending order, after its equals
InsertStable(s, x) ==
    LET k == Cardinality({j \in 1..Len(s) : s[j].importo_netto >= x.importo_netto})
    IN  SubSeq(s, 1, k) \o <<x>> \o SubSeq(s, k + 1, Len(s))

InsertBeforeEquals(s, x) ==
    LET k == Cardinality({j \in 1..Len(s) : s[j].importo_netto > x.importo_netto})
    IN  SubSeq(s, 1, k) \o <<x>> \o SubSeq(s, k + 1, Len(s))

InsertAscending(s, x) ==
    LET k == Cardinality({j \in 1..Len(s) : s[j].importo_netto <= x.importo_netto})
    IN  SubSeq(s, 1, k) \o <<x>> \o SubSeq(s, k + 1, Len(s))

\* the list ordered by one insertion per element, in the list's order
sorted_ascending(s) ==
    LET F[i \in 0..Len(s)] ==
            IF i = 0 THEN <<>> ELSE InsertAscending(F[i - 1], s[i])
    IN  F[Len(s)]

sorted_unstable(s) ==
    LET F[i \in 0..Len(s)] ==
            IF i = 0 THEN <<>> ELSE InsertBeforeEquals(F[i - 1], s[i])
    IN  F[Len(s)]

\* sorted(risultati, key=importo_netto, reverse=True): descending, and stable
\* (elements with equal keys keep the order they had in risultati)
sorted_reverse(s) ==
    LET F[i \in 0..Len(s)] ==
            IF i = 0 THEN <<>> ELSE InsertStable(F[i - 1], s[i])
    IN  F[Len(s)]

calcola_opzioni(imp, r, comm) ==
    LET l == Loop(imp, r, comm, 1, <<>>)
    IN  IF l.exc # "none" THEN l ELSE Returned(sorted_reverse(l.val))

\* run, lines 240-241: the lookup, then the ranking of the row it returned
chain(d, imp, r) ==
    LET c == get_commissioni(d, r)
    IN  IF c.exc # "none" THEN c ELSE calcola_opzioni(imp, r, c.val)

-----------------------------------------------------------------------------
(* AIAnalyzer.formatta_risposta *)

\* A text is the sequence of its lines (text.split('\n')); the empty text
\* is the one empty line.  Lines carry no surrounding blanks.
Righe ==
    {"", "Ecco la mia analisi:", "ANALISI COMPARATIVA DELLE OPZIONI",
     "suggerimenti pratici", "testo", "- punto"}

\* any(section in line.upper() ...) on the lines above
IsTitle(line) ==
    line \in {"ANALISI COMPARATIVA DELLE OPZIONI", "suggerimenti pratici"}

\* text.replace("Ecco la mia analisi:", ""), line by line
Replace(line) == IF line = "Ecco la mia analisi:" THEN "" ELSE line

Section(title, content) == [title |-> title, content |-> content]

\* if current_section and current_content: sections.append(...)
Flush(sections, cur, content) ==
    IF cur # "" /\ content # <<>>
    THEN Append(sections, Section(cur, content))
    ELSE sections

RECURSIVE Scan(_, _, _, _, _)
Scan(text, i, sections, cur, content) ==
    IF i > Len(text) THEN Flush(sections, cur, content)
    ELSE LET line == Replace(text[i]) IN
         IF line = "" THEN Scan(text, i + 1, sections, cur, content)
         ELSE IF IsTitle(line)
              THEN Scan(text, i + 1, Flush(sections, cur, content), line, <<>>)
              ELSE Scan(text, i + 1, sections, cur, Append(content, line))

formatta_risposta(text) ==
    IF text = <<"">> THEN <<>> ELSE Scan(text, 1, <<>>, "", <<>>)

-----------------------------------------------------------------------------
(* AIAnalyzer.analizza_opzioni *)

\* An Optional[List]: None, or a list of sections
None == [isNone |-> TRUE, sections |-> <<>>]
Some(s) == [isNone |-> FALSE, sections |-> s]

\* bool(analysis)
Truthy(a) == ~a.isNone /\ a.sections # <<>>

Element(el, arg) == [el |-> el, arg |-> arg]

analizza_opzioni_reraise(outcome) ==
    IF outcome.raised
    THEN [exc |-> "APIError", val |-> None, out |-> <<>>]
    ELSE [exc |-> "none", val |-> Some(formatta_risposta(outcome.text)), out |-> <<>>]

\* try: ... return formatta_risposta(...)
\* except Exception: st.error(...); return None
analizza_opzioni(outcome) ==
    IF outcome.raised
    THEN [exc |-> "none", val |-> None,
          out |-> <<Element("error", "Errore nell'analisi AI")>>]
    ELSE [exc |-> "none", val |-> Some(formatta_risposta(outcome.text)), out |-> <<>>]

-----------------------------------------------------------------------------
(* StreamlitUI rendering *)

\* render_header and render_inputs
HeaderInputs ==
    << Element("title", "Analizzatore Finanziamenti"),
       Element("markdown", "intro"),
       Element("number_input", "Importo da finanziare"),
       Element("number_input", "Numero di rate"),
       Element("button", "Analizza Opzioni") >>

Container(i) == IF i = 1 THEN "success" ELSE IF i = 2 THEN "warning" ELSE "error"

\* render_results: the header, then risultati[0] (IndexError on an empty
\* list), then one container per option
render_results(ris) ==
    LET head == <<Element("header", "Riepilogo Opzioni")>> IN
    IF ris = <<>>
    THEN [exc |-> "IndexError", out |-> head]
    ELSE [exc |-> "none",
          out |-> head \o <<Element("info", "Dettagli Finanziamento")>>
                  \o [i \in 1..Len(ris) |-> Element(Container(i), ris[i].finanziaria)]]

RECURSIVE Flatten(_)
Flatten(ss) == IF ss = <<>> THEN <<>> ELSE Head(ss) \o Flatten(Tail(ss))

\* one element per line of a section's content
RenderLine(title, line) ==
    IF title = "suggerimenti pratici" THEN Element("markdown", line)
    ELSE IF line = "- punto" THEN Element("markdown", "punto")
    ELSE Element("write", line)

RenderSection(s) ==
    <<Element("expander", s.title)>>
    \o [j \in 1..Len(s.content) |-> RenderLine(s.title, s.content[j])]

render_ai_analysis(sections) ==
    IF sections = <<>>
    THEN <<Element("error", "Non e' stato possibile generare l'analisi AI")>>
    ELSE <<Element("header", "Analisi Dettagliata")>>
         \o Flatten([k \in 1..Len(sections) |-> RenderSection(sections[k])])

-----------------------------------------------------------------------------
(* Inputs *)

\* what the amount widget accepts: min_value, and the steps from it upward
FormImporti ==
    {v \in {ImportoMin} \cup {k * ImportoStep : k \in 0..MaxSteps} : v >= ImportoMin}

FormRate == RateMin..RateMax

\* arguments of a direct call: also amounts <= 0 and counts outside the table
TestImporti == {ImportoMin} \cup {k * ImportoStep : k \in -1..MaxSteps}

TestRate == (RateMin - 1)..(RateMax + 1)

\* any fee row for count r
TestRows(r) ==
    {Row(r, s, c, h) : s \in 0..MaxPct, c \in 0..MaxPct, h \in 0..MaxPct}

\* replies of the text-generation service
Texts == UNION {[1..n -> Righe] : n \in 1..MaxLines}

Unset == <<>>

NoCall == [op |-> "none", importo |-> 0, rate |-> 0, commissioni |-> Row(0, 0, 0, 0)]

-----------------------------------------------------------------------------
(* State after construction: StreamlitUI.__init__ and the widgets' defaults *)

Init ==
    /\ df = DataFrame
    /\ importo = ImportoDefault
    /\ rate = RateDefault
    /\ pc = "idle"
    /\ commissioni = Unset
    /\ risultati = Unset
    /\ analysis = None
    /\ aiOutcome = "none"
    /\ screen = HeaderInputs
    /\ call = NoCall
    /\ ret = Returned(<<>>)

-----------------------------------------------------------------------------
(* StreamlitUI.run, one script run per interaction *)

\* a script run starts from nothing: locals unset, the page drawn anew
FreshRun ==
    /\ commissioni' = Unset
    /\ risultati' = Unset
    /\ analysis' = None
    /\ aiOutcome' = "none"
    /\ screen' = HeaderInputs

\* except Exception as e: st.error(...), and the run ends
Handler(out) ==
    /\ screen' = screen \o out \o <<Element("error", "Si e' verificato un errore")>>
    /\ pc' = "idle"

\* the user edits the amount: a run in which st.button returns False
SetImporto(v) ==
    /\ pc = "idle"
    /\ importo' = v
    /\ FreshRun
    /\ UNCHANGED <<df, rate, pc, call, ret>>

\* the user edits the count: a run in which st.button returns False
SetRate(r) ==
    /\ pc = "idle"
    /\ rate' = r
    /\ FreshRun
    /\ UNCHANGED <<df, importo, pc, call, ret>>

\* the user presses "Analizza Opzioni": a run in which st.button returns True
PressButton ==
    /\ pc = "idle"
    /\ FreshRun
    /\ pc' = "lookup"
    /\ UNCHANGED <<df, importo, rate, call, ret>>

\* commissioni = self.findata.get_commissioni(rate)
Lookup ==
    /\ pc = "lookup"
    /\ LET c == get_commissioni(df, rate) IN
        IF c.exc # "none"
        THEN Handler(<<>>) /\ UNCHANGED commissioni
        ELSE /\ commissioni' = c.val
             /\ pc' = "rank"
             /\ UNCHANGED screen
    /\ UNCHANGED <<df, importo, rate, risultati, analysis, aiOutcome, call, ret>>

\* risultati = self.calculator.calcola_opzioni(importo, rate, commissioni)
Rank ==
    /\ pc = "rank"
    /\ LET o == calcola_opzioni(importo, rate, commissioni) IN
        IF o.exc # "none"
        THEN Handler(<<>>) /\ UNCHANGED risultati
        ELSE /\ risultati' = o.val
             /\ pc' = "render"
             /\ UNCHANGED screen
    /\ UNCHANGED <<df, importo, rate, commissioni, analysis, aiOutcome, call, ret>>

\* self.render_results(importo, rate, risultati)
RenderResults ==
    /\ pc = "render"
    /\ LET o == render_results(risultati) IN
        IF o.exc # "none"
        THEN Handler(o.out)
        ELSE /\ screen' = screen \o o.out
             /\ pc' = "ai"
    /\ UNCHANGED <<df, importo, rate, commissioni, risultati, analysis, aiOutcome,
                   call, ret>>

\* analysis = self.analyzer.analizza_opzioni(importo, rate, risultati), for
\* each outcome of client.messages.create: an exception, or a reply
AnalizzaOpzioni(outcome) ==
    /\ pc = "ai"
    /\ aiOutcome' = IF outcome.raised THEN "raised" ELSE "replied"
    /\ LET a == analizza_opzioni(outcome) IN
        IF a.exc # "none"
        THEN Handler(a.out) /\ UNCHANGED analysis
        ELSE /\ analysis' = a.val
             /\ screen' = screen \o a.out
             /\ pc' = "analysis"
    /\ UNCHANGED <<df, importo, rate, commissioni, risultati, call, ret>>

\* if analysis: self.render_ai_analysis(analysis); the run ends
RenderAnalysis ==
    /\ pc = "analysis"
    /\ screen' = IF Truthy(analysis)
                 THEN screen \o render_ai_analysis(analysis.sections)
                 ELSE screen
    /\ pc' = "idle"
    /\ UNCHANGED <<df, importo, rate, commissioni, risultati, analysis, aiOutcome,
                   call, ret>>

Next ==
    \/ \E v \in FormImporti : SetImporto(v)
    \/ \E r \in FormRate : SetRate(r)
    \/ PressButton
    \/ Lookup
    \/ Rank
    \/ RenderResults
    \/ \E t \in Texts : AnalizzaOpzioni([raised |-> FALSE, text |-> t])
    \/ AnalizzaOpzioni([raised |-> TRUE, text |-> <<"">>])
    \/ RenderAnalysis

Spec == Init /\ [][Next]_vars

-----------------------------------------------------------------------------
(* The two functions called directly, with any arguments *)

\* no call is in progress
Ready == call.op = "none"

CallGetCommissioni_drop(r) ==
    /\ Ready
    /\ call' = [op |-> "get_commissioni", importo |-> 0, rate |-> r,
                commissioni |-> Row(0, 0, 0, 0)]
    /\ ret' = get_commissioni(df, r)
    /\ df' = SelectSeq(df, LAMBDA row : row["Mesi"] # r)
    /\ UNCHANGED uiVars

CallGetCommissioni(r) ==
    /\ Ready
    /\ call' = [op |-> "get_commissioni", importo |-> 0, rate |-> r,
                commissioni |-> Row(0, 0, 0, 0)]
    /\ ret' = get_commissioni(df, r)
    /\ UNCHANGED <<df, uiVars>>

CallCalcolaOpzioni(imp, r, comm) ==
    /\ Ready
    /\ call' = [op |-> "calcola_opzioni", importo |-> imp, rate |-> r,
                commissioni |-> comm]
    /\ ret' = calcola_opzioni(imp, r, comm)
    /\ UNCHANGED <<df, uiVars>>

\* get_commissioni, then calcola_opzioni on its row, as run composes them
CallChain(imp, r) ==
    /\ Ready
    /\ call' = [op |-> "chain", importo |-> imp, rate |-> r,
                commissioni |-> Row(0, 0, 0, 0)]
    /\ ret' = chain(df, imp, r)
    /\ UNCHANGED <<df, uiVars>>

\* the caller is done with the result of the call
Discard ==
    /\ call.op # "none"
    /\ call' = NoCall
    /\ ret' = Returned(<<>>)
    /\ UNCHANGED <<df, uiVars>>

NextCalc ==
    \/ Ready /\ \E r \in TestRate : CallGetCommissioni(r)
    \/ Ready /\ \E imp \in TestImporti, r \in TestRate :
                  \E comm \in TestRows(r) : CallCalcolaOpzioni(imp, r, comm)
    \/ Ready /\ \E imp \in TestImporti, r \in TestRate : CallChain(imp, r)
    \/ Discard

SpecCalc == Init /\ [][NextCalc]_vars

-----------------------------------------------------------------------------
(* Properties of the two functions, under SpecCalc *)

\* the last call returned a list of options
ListReturned == call.op \in {"calcola_opzioni", "chain"} /\ ret.exc = "none"

\* the fee row the last call ranked
RowOf == IF call.op = "chain" THEN df[call.rate] ELSE call.commissioni

Offered == {f \in {Finanziarie[i] : i \in 1..Len(Finanziarie)} : RowOf[f] # 0}

Pos(f) == CHOOSE i \in 1..Len(Finanziarie) : Finanziarie[i] = f

\* C1: the list calcola_opzioni returns is in descending order of
\* importo_netto: no element has a smaller net amount than its successor.
C1_Descending ==
    ListReturned =>
        \A i \in 1..(Len(ret.val) - 1) :
            ret.val[i].importo_netto >= ret.val[i + 1].importo_netto

\* three options came back, and not in the order the loop produced them
C1_Witness ==
    /\ ListReturned
    /\ Len(ret.val) = 3
    /\ ret.val[1].finanziaria = "Compass HeyLight"
    /\ ret.val[1].importo_netto > ret.val[3].importo_netto

\* C2: the lenders of the returned list are exactly the lenders whose
\* percentage in the fee row is not 0, each once.
C2_Lenders ==
    ListReturned =>
        /\ {ret.val[i].finanziaria : i \in 1..Len(ret.val)} = Offered
        /\ Len(ret.val) = Cardinality(Offered)

\* a row with one lender at 0 and two offered
C2_Witness ==
    /\ call.op = "calcola_opzioni"
    /\ ret.exc = "none"
    /\ call.commissioni["Cofidis PagoDIL"] = 0
    /\ Len(ret.val) = 2

C4_NoOptionsAvailableError ==
    (call.op = "calcola_opzioni" /\ Offered = {}) =>
        ret.exc = "NoOptionsAvailableError"

\* C4 amended: with the three percentages at 0 calcola_opzioni raises nothing
\* and returns the empty list.
C4_EmptyList ==
    (call.op = "calcola_opzioni" /\ Offered = {}) =>
        (ret.exc = "none" /\ ret.val = <<>>)

C4_Witness ==
    /\ call.op = "calcola_opzioni"
    /\ Offered = {}
    /\ call.importo > 0
    /\ call.rate \in RateMin..RateMax
    /\ ret.exc = "none"
    /\ Len(ret.val) = 0

\* C5: for a count in 1..24 and a positive amount, every option of the
\* lookup followed by the ranking has costo_commissione = amount *
\* percentage / 100 and importo_netto + costo_commissione = amount.
C5_NetPlusCost ==
    (call.op = "chain" /\ call.importo > 0 /\ call.rate \in RateMin..RateMax) =>
        /\ ret.exc = "none"
        /\ \A i \in 1..Len(ret.val) :
              /\ ret.val[i].costo_commissione =
                    call.importo * df[call.rate][ret.val[i].finanziaria]
              /\ ret.val[i].importo_netto + ret.val[i].costo_commissione =
                    call.importo * Unita

C5_Witness ==
    /\ call.op = "chain"
    /\ call.importo = ImportoMin
    /\ call.rate = RateMax
    /\ ret.exc = "none"
    /\ Len(ret.val) = 3
    /\ ret.val[3].costo_commissione > 0

\* C6: with the built-in table, the lookup for 12 installments returns
\* 7.35, 6.80 and 7.85, and 1000.00 over 12 installments ranks Cofidis
\* PagoDIL (932.00), Sella Appago (926.50), Compass HeyLight (921.50).
C6_Scenario ==
    /\ (call.op = "get_commissioni" /\ call.rate = 12) =>
          /\ ret.exc = "none"
          /\ ret.val["Sella Appago"] = 735
          /\ ret.val["Cofidis PagoDIL"] = 680
          /\ ret.val["Compass HeyLight"] = 785
    /\ (call.op = "chain" /\ call.importo = 1000 * Centesimi /\ call.rate = 12) =>
          /\ ret.exc = "none"
          /\ [i \in 1..Len(ret.val) |-> ret.val[i].finanziaria] =
                << "Cofidis PagoDIL", "Sella Appago", "Compass HeyLight" >>
          /\ [i \in 1..Len(ret.val) |-> ret.val[i].importo_netto] =
                << 93200 * Unita, 92650 * Unita, 92150 * Unita >>

C6_Witness ==
    /\ call.op = "chain"
    /\ call.importo = 1000 * Centesimi
    /\ call.rate = 12
    /\ ret.exc = "none"
    /\ Len(ret.val) = 3

\* C7: the table has 24 rows keyed 1..24, each with the three lender fields,
\* and no call of get_commissioni or calcola_opzioni changes an entry of it.
C7_TableConstant ==
    /\ Len(df) = 24
    /\ \A i \in 1..Len(df) : df[i]["Mesi"] = i /\ DOMAIN df[i] = Columns
    /\ df = DataFrame

\* a lookup has returned a row, and the table is as it was built
C7_Witness ==
    /\ call.op = "get_commissioni"
    /\ call.rate = RateMax
    /\ ret.exc = "none"
    /\ df = DataFrame

\* C8: options with equal importo_netto come back in the order of the
\* lender enumeration: Sella Appago, Cofidis PagoDIL, Compass HeyLight.
C8_TiesInEnumerationOrder ==
    ListReturned =>
        \A i, j \in 1..Len(ret.val) :
            (i < j /\ ret.val[i].importo_netto = ret.val[j].importo_netto) =>
                Pos(ret.val[i].finanziaria) < Pos(ret.val[j].finanziaria)

\* two lenders tie behind a third that the sort moved ahead of them
C8_Witness ==
    /\ ListReturned
    /\ call.importo > 0
    /\ Len(ret.val) = 3
    /\ ret.val[1].finanziaria = "Compass HeyLight"
    /\ ret.val[2].importo_netto = ret.val[3].importo_netto
    /\ ret.val[2].finanziaria = "Sella Appago"

-----------------------------------------------------------------------------
(* Properties of the script run, under Spec *)

RunError == Element("error", "Si e' verificato un errore")

OnScreen(e) == \E i \in 1..Len(screen) : screen[i] = e

\* the elements render_results drew for risultati follow the header and inputs
ResultsOnScreen ==
    /\ risultati # <<>>
    /\ Len(screen) >= Len(HeaderInputs) + Len(risultati) + 2
    /\ SubSeq(screen, Len(HeaderInputs) + 1, Len(HeaderInputs) + Len(risultati) + 2)
          = render_results(risultati).out

\* C9: every row of the built-in table has a lender with a non-zero
\* percentage, so in a run on the form's inputs calcola_opzioni returns a
\* non-empty list and render_results' risultati[0] does not fail.
C9_NonEmpty ==
    /\ \A m \in FormRate : \E i \in 1..Len(Finanziarie) : df[m][Finanziarie[i]] # 0
    /\ pc \in {"render", "ai", "analysis"} => Len(risultati) > 0
    /\ ~OnScreen(RunError)

\* the smallest amount and the count with a single lender, rendered
C9_Witness ==
    /\ pc = "ai"
    /\ importo = ImportoMin
    /\ rate = RateMin
    /\ Len(risultati) = 1
    /\ ResultsOnScreen

StepOrder ==
    {<<"idle", "lookup">>, <<"lookup", "rank">>, <<"rank", "render">>,
     <<"render", "ai">>, <<"ai", "analysis">>, <<"analysis", "idle">>}

\* C10: in a run the steps are lookup, rank, render results, AI call, in
\* this order; the results are on the page when the AI call starts; and when
\* the AI call raises, analizza_opzioni returns None, no analysis section is
\* drawn, the results stay on the page and run's handler sees no exception.
C10_RunOrder ==
    /\ [](pc \in {"ai", "analysis"} => ResultsOnScreen)
    /\ [](aiOutcome = "raised" =>
            /\ pc \in {"analysis", "idle"}
            /\ analysis = None
            /\ ResultsOnScreen
            /\ OnScreen(Element("error", "Errore nell'analisi AI"))
            /\ ~OnScreen(Element("header", "Analisi Dettagliata"))
            /\ ~OnScreen(RunError))
    /\ [][pc' # pc => <<pc, pc'>> \in StepOrder]_vars

\* the run has ended after an AI call that raised
C10_Witness ==
    /\ aiOutcome = "raised"
    /\ pc = "idle"
    /\ analysis = None
    /\ ResultsOnScreen

====
